---- MODULE Spec2Model ----
(***************************************************************************)
(* The Superstore sales dashboard of src/app.py: a Streamlit script that   *)
(* is re-run from top to bottom after every widget interaction.  One run   *)
(* loads the (cached) table, reads the widgets, filters the table, builds  *)
(* the six metric cards and renders the page of the selected view.         *)
(*                                                                         *)
(* Representation.  A categorical string (region, state, city, category,   *)
(* sub_category, product_name, ship_mode, order_id) is the natural number  *)
(* giving its rank in lexicographic order, so that sorted() and the sorted *)
(* group keys of groupby() are the ascending order of the numbers.  The    *)
(* strings "All" and "-" are the numbers All and Dash, below every key.    *)
(* A Timestamp is the number of days since 1970-01-01.  Monetary amounts   *)
(* are whole dollars, for which float64 addition is exact whatever the     *)
(* order of the additions.                                                 *)
(***************************************************************************)
EXTENDS Integers, Sequences, FiniteSets, TLC

VARIABLES
    cache,        \* st.cache_data: the table load_data() returned on the first run
    theme,        \* st.session_state['theme']
    selected,     \* option_menu: the selected view
    region,       \* selectbox "Select Region"
    state,        \* selectbox "Select State"
    city,         \* selectbox "Pick the City"
    start_date,   \* date_input "Start Date"
    end_date,     \* date_input "End Date"
    cat,          \* selectbox "Choose Category" (Category view only)
    df,           \* the table of the last run
    df_filtered,  \* the filtered view of the last run
    metrics,      \* the six metric cards of the last run
    page          \* what the selected view's branch computed in the last run

vars == <<cache, theme, selected, region, state, city, start_date, end_date,
          cat, df, df_filtered, metrics, page>>

-----------------------------------------------------------------------------
(* Bounds *)

\* Longest table of the dashboard specification.
MaxRows == 3
\* Rows a table of the ranking specification has beyond TopN.
MaxExtra == 2

(* Program constants *)

\* The "All" entry that leads every selectbox.
All == 0
\* The "-" shown for an empty view.
Dash == -1
\* head(10) of the rankings.
TopN == 10
\* What a card holds when the expression behind it raised.
ValueError == -2

options == <<"Home", "Sales", "Trends", "Category", "Product", "Location", "Shipping">>

-----------------------------------------------------------------------------
(* Calendar: datetime64 values are days since the epoch *)

\* Days since 1970-01-01 of the civil date y-m-d (proleptic Gregorian), from
\* the year counted from March (yy), the month counted from March (mp).
DaysFromMarchYear(yy, mp, d) ==
    LET era == yy \div 400
        yoe == yy % 400
    IN  era * 146097 + yoe * 365 + (yoe \div 4) - (yoe \div 100)
        + ((153 * mp + 2) \div 5) + d - 1 - 719468

DaysFromCivil(y, m, d) ==
    DaysFromMarchYear(IF m <= 2 THEN y - 1 ELSE y, IF m > 2 THEN m - 3 ELSE m + 9, d)

\* The civil date <<y, m, d>> of a day number, in three steps: the era of
\* 400 years, the year of the era, the month and day of the year.
CivilOfYearDay(era, yoe, doy) ==
    LET mp == (5 * doy + 2) \div 153
        m  == IF mp < 10 THEN mp + 3 ELSE mp - 9
    IN  <<yoe + era * 400 + (IF m <= 2 THEN 1 ELSE 0), m,
          doy - ((153 * mp + 2) \div 5) + 1>>

CivilOfEraDay(era, doe) ==
    LET yoe == (doe - (doe \div 1460) + (doe \div 36524) - (doe \div 146096)) \div 365
    IN  CivilOfYearDay(era, yoe, doe - (365 * yoe + (yoe \div 4) - (yoe \div 100)))

CivilFromDays(z0) ==
    CivilOfEraDay((z0 + 719468) \div 146097, (z0 + 719468) % 146097)

\* pd.to_datetime of a "YYYY-MM-DD" cell, given as <<y, m, d>>.
to_datetime(s) == DaysFromCivil(s[1], s[2], s[3])

\* to_period_M grouping by the month number alone, the year dropped.
to_period_M_MonthOnly(t) == CivilFromDays(t)[2] - 1

\* .dt.to_period('M'): the month ordinal, months since 1970-01.
to_period_M(t) ==
    LET c == CivilFromDays(t) IN (c[1] - 1970) * 12 + (c[2] - 1)

\* astype(str) of a monthly period: "YYYY-MM", kept as its two numbers.
period_str(p) == <<1970 + (p \div 12), (p % 12) + 1>>

-----------------------------------------------------------------------------
(* The data source *)

CsvRow(oid, od, sd, rg, stt, ct, ctg, sub, prod, s, q, p, mode) ==
    [order_id |-> oid, order_date |-> od, ship_date |-> sd, region |-> rg,
     state |-> stt, city |-> ct, category |-> ctg, sub_category |-> sub,
     product_name |-> prod, sales |-> s, quantity |-> q, profit |-> p,
     ship_mode |-> mode]

\* Sample lines of data_query/superstore.csv, dates still as text.
superstore_csv == <<
    CsvRow(1, <<2023, 1, 5>>,  <<2023, 1, 7>>,  1, 2, 2, 2, 3, 3, 100, 2, 20, 1),
    CsvRow(1, <<2023, 1, 20>>, <<2023, 1, 25>>, 2, 1, 1, 1, 1, 1, 100, 1, -30, 2),
    CsvRow(2, <<2024, 1, 5>>,  <<2024, 1, 5>>,  1, 2, 1, 1, 2, 2, 50, 3, 5, 1),
    CsvRow(3, <<2023, 3, 10>>, <<2023, 4, 2>>,  1, 1, 2, 2, 3, 4, 50, 1, 10, 2),
    CsvRow(3, <<2023, 1, 5>>,  <<2023, 1, 6>>,  2, 1, 1, 1, 1, 1, 25, 4, -5, 1),
    CsvRow(4, <<2023, 1, 20>>, <<2023, 2, 1>>,  2, 2, 2, 2, 4, 5, 75, 2, 0, 2),
    CsvRow(5, <<2023, 3, 10>>, <<2023, 3, 9>>,  1, 2, 2, 1, 2, 2, 0, 1, -10, 1) >>

\* Line i of a file with many products in one region and on two days.  A
\* file of kind 1 has many states and two cities, a file of kind 2 many
\* cities and two states.  The first two lines carry the same amount.
RankCsvRow(kind, i) ==
    LET many == 1 + (i % 12)
        few  == 1 + (i % 2)
    IN  CsvRow(i, <<2023, 6, IF i % 4 = 0 THEN 15 ELSE 1>>, <<2023, 6, 18>>, 1,
               IF kind = 1 THEN many ELSE few, IF kind = 1 THEN few ELSE many,
               1 + (i % 2), 1 + (i % 3), 1 + (i % 11),
               10 * (IF i < 2 THEN 2 ELSE i), 1, 1, 1)

\* The n lines of superstore_csv that start at line k, wrapping around.
CsvWindow(k, n) ==
    [i \in 1..n |-> superstore_csv[((k + i - 2) % Len(superstore_csv)) + 1]]

RankCsv(kind, n) == [i \in 1..n |-> RankCsvRow(kind, i)]

\* load_data(): read_csv, then both date columns through pd.to_datetime.
load_data(csv) ==
    [i \in 1..Len(csv) |->
        [csv[i] EXCEPT !.order_date = to_datetime(csv[i].order_date),
                       !.ship_date = to_datetime(csv[i].ship_date)]]

Tables ==
    {load_data(CsvWindow(k, n)) : k \in 1..Len(superstore_csv), n \in 1..MaxRows}

RankTables ==
    {load_data(RankCsv(kind, n)) : kind \in 1..2, n \in (TopN + 1)..(TopN + MaxExtra)}

-----------------------------------------------------------------------------
(* pandas *)

Min2(a, b) == IF a <= b THEN a ELSE b

SetMin(S) == CHOOSE x \in S : \A y \in S : x <= y
SetMax(S) == CHOOSE x \in S : \A y \in S : y <= x

\* sorted(): the elements of a set in ascending order.
RECURSIVE sorted(_)
sorted(S) ==
    IF S = {} THEN <<>>
    ELSE LET m == SetMin(S) IN <<m>> \o sorted(S \ {m})

\* The grouping key of a row: a column, or the month of order_date.
KeyOf(r, key) ==
    IF key = "order_month" THEN to_period_M(r.order_date) ELSE r[key]

\* Series.unique() as a set.
unique(view, key) == {KeyOf(view[i], key) : i \in 1..Len(view)}

\* Series.sum() of a column, left to right.
RECURSIVE SumFrom(_, _, _)
SumFrom(view, col, i) ==
    IF i > Len(view) THEN 0 ELSE view[i][col] + SumFrom(view, col, i + 1)

sum(view, col) == SumFrom(view, col, 1)

\* df[df[key] == k]
RowsWhere(view, key, k) == SelectSeq(view, LAMBDA r : KeyOf(r, key) = k)

\* groupby_sum taking each group's first row instead of the group's sum.
groupby_first(view, key) ==
    LET keys == sorted(unique(view, key))
    IN  [j \in 1..Len(keys) |->
            [key |-> keys[j], sales |-> RowsWhere(view, key, keys[j])[1].sales]]

\* groupby(key)['sales'].sum(): one entry per key present, keys ascending.
groupby_sum(view, key) ==
    LET keys == sorted(unique(view, key))
    IN  [j \in 1..Len(keys) |->
            [key |-> keys[j], sales |-> sum(RowsWhere(view, key, keys[j]), "sales")]]

\* idxmax returning the last entry that holds the maximum.
idxmax_Last(s) ==
    IF s = <<>> THEN ValueError ELSE
    LET mx == SetMax({s[j].sales : j \in 1..Len(s)})
        j0 == SetMax({j \in 1..Len(s) : s[j].sales = mx})
    IN  s[j0].key

\* Series.idxmax(): the key of the first entry holding the maximum; of an
\* empty Series it raises ValueError.
idxmax(s) ==
    IF s = <<>> THEN ValueError ELSE
    LET mx == SetMax({s[j].sales : j \in 1..Len(s)})
        j0 == SetMin({j \in 1..Len(s) : s[j].sales = mx})
    IN  s[j0].key

\* Series.nunique()
nunique(view, key) == Cardinality(unique(view, key))

RemoveAt(s, i) == SubSeq(s, 1, i - 1) \o SubSeq(s, i + 1, Len(s))

\* sort_values(ascending=False): the default quicksort is not stable, so
\* entries with equal sums may come out in any order.  The set of results.
RECURSIVE sort_values_desc(_)
sort_values_desc(s) ==
    IF s = <<>> THEN {<<>>}
    ELSE LET mx == SetMax({s[j].sales : j \in 1..Len(s)})
         IN  UNION {{<<s[j]>> \o t : t \in sort_values_desc(RemoveAt(s, j))} :
                        j \in {i \in 1..Len(s) : s[i].sales = mx}}

head(s, n) == SubSeq(s, 1, Min2(n, Len(s)))

-----------------------------------------------------------------------------
(* The script, top to bottom *)

\* toggle_theme(), the on_click callback of the sidebar button.
toggle_theme(th) == IF th = "light" THEN "dark" ELSE "light"

\* The entries of a filter selectbox: ["All"] + sorted(df[key].unique()).
SelectOptions(table, key) == <<All>> \o sorted(unique(table, key))

min_date(table) == SetMin(unique(table, "order_date"))
max_date(table) == SetMax(unique(table, "order_date"))

\* The days a date_input can return: min_value <= day <= max_value.  The
\* days taken are those some line of the data source carries; any other day
\* of the range selects the same rows as one of these.
DateOptions(table) ==
    {d \in unique(load_data(superstore_csv), "order_date") \cup unique(table, "order_date") :
        min_date(table) <= d /\ d <= max_date(table)}

\* FilterStep without the test for "All".
FilterStep_NoSentinel(view, key, value) == RowsWhere(view, key, value)

\* One equality step of the filter: applied unless the widget says "All".
FilterStep(view, key, value) ==
    IF value # All THEN RowsWhere(view, key, value) ELSE view

\* DateStep with the end day excluded.
DateStep_ExclusiveEnd(view, sd, ed) ==
    SelectSeq(view, LAMBDA r : r.order_date >= sd /\ r.order_date < ed)

\* DateStep that puts a reversed range in order before it compares.
DateStep_Swapped(view, sd, ed) ==
    SelectSeq(view, LAMBDA r : r.order_date >= Min2(sd, ed)
                               /\ r.order_date <= (IF sd <= ed THEN ed ELSE sd))

\* The date step: start <= order_date <= end.
DateStep(view, sd, ed) ==
    SelectSeq(view, LAMBDA r : r.order_date >= sd /\ r.order_date <= ed)

\* "filter data": df.copy(), the three equality steps, the date step.
FilterData(table, rg, stt, ct, sd, ed) ==
    DateStep(FilterStep(FilterStep(FilterStep(table, "region", rg), "state", stt),
                        "city", ct), sd, ed)

\* f"${x:,.0f}" of a whole amount: the "$" and the number.
Dollars(x) == <<"$", x>>

\* TopKey without the test for an empty view.
TopKey_Unguarded(view, key) == idxmax(groupby_sum(view, key))

\* The top key of a grouping, "-" for an empty view.
TopKey(view, key) ==
    IF view # <<>> THEN idxmax(groupby_sum(view, key)) ELSE Dash

\* The six metric cards.
Metrics(view) ==
    [total_sales  |-> Dollars(sum(view, "sales")),
     qty_sold     |-> sum(view, "quantity"),
     total_profit |-> Dollars(sum(view, "profit")),
     top_category |-> TopKey(view, "category"),
     top_city     |-> TopKey(view, "city"),
     orders       |-> nunique(view, "order_id")]

\* The entries of "Choose Category": built from the filtered view.
CatOptions(view) == <<All>> \o sorted(unique(view, "category"))

\* The trend: monthly sums, the period turned into its string.
trend(view) ==
    LET g == groupby_sum(view, "order_month")
    IN  [j \in 1..Len(g) |-> [order_date |-> period_str(g[j].key), sales |-> g[j].sales]]

\* CategoryData that ignores the chosen category.
CategoryData_Unfiltered(view, c) == view

\* The rows the sub-category chart is built from.
CategoryData(view, c) ==
    IF c = All THEN view ELSE RowsWhere(view, "category", c)

\* The possible sub-category charts.
subcat_sales(view, c) == sort_values_desc(groupby_sum(CategoryData(view, c), "sub_category"))

\* Ranking without sort_values: the first TopN groups in key order.
Ranking_Unsorted(view, key) == {head(groupby_sum(view, key), TopN)}

\* The possible top-10 charts of a grouping.
Ranking(view, key) == {head(s, TopN) : s \in sort_values_desc(groupby_sum(view, key))}

\* Series.mean() of the shipping days: NaN (here <<>>) for no rows, else the
\* sum and the count.
avg_ship(view) ==
    IF view = <<>> THEN <<>>
    ELSE <<sum(view, "ship_date") - sum(view, "order_date"), Len(view)>>

\* Round a / b (b > 0) to the nearest integer, halves to even.
RoundHalfEven(a, b) ==
    LET q == a \div b
        r == a % b
    IN  IF 2 * r < b THEN q
        ELSE IF 2 * r > b THEN q + 1
        ELSE IF q % 2 = 0 THEN q ELSE q + 1

\* f"{avg_ship:.1f} days" if not pd.isna(avg_ship) else "-": the tenths.
AvgShipText(a) ==
    IF a = <<>> THEN <<Dash>> ELSE <<RoundHalfEven(10 * a[1], a[2]), "days">>

NoPage == [view |-> "Home"]

\* What the branch of the selected view computes: the set of possible pages.
Page(sel, view, c) ==
    IF sel = "Sales" THEN
        {[view |-> sel, cat_sales |-> groupby_sum(view, "category"),
          reg_sales |-> groupby_sum(view, "region")]}
    ELSE IF sel = "Trends" THEN
        {[view |-> sel, trend |-> trend(view)]}
    ELSE IF sel = "Category" THEN
        {[view |-> sel, subcat_sales |-> s] : s \in subcat_sales(view, c)}
    ELSE IF sel = "Product" THEN
        {[view |-> sel, top_products |-> s] : s \in Ranking(view, "product_name")}
    ELSE IF sel = "Location" THEN
        {[view |-> sel, state_sales |-> s, city_sales |-> t] :
            s \in Ranking(view, "state"), t \in Ranking(view, "city")}
    ELSE IF sel = "Shipping" THEN
        {[view |-> sel, ship_mode |-> groupby_sum(view, "ship_mode"),
          avg_ship |-> AvgShipText(avg_ship(view))]}
    ELSE {NoPage}

\* A run that starts from the view the previous run left behind.
LoadedTable_Filtered == df_filtered

\* The table a run works on: load_data() answers from the cache.
LoadedTable == cache

\* One run of the script with the given widget values.
Run(th, sel, rg, stt, ct, sd, ed, c) ==
    LET table == LoadedTable
        view  == FilterData(table, rg, stt, ct, sd, ed)
    IN  /\ cache' = cache
        /\ theme' = th
        /\ selected' = sel
        /\ region' = rg
        /\ state' = stt
        /\ city' = ct
        /\ start_date' = sd
        /\ end_date' = ed
        /\ cat' = c
        /\ df' = table
        /\ df_filtered' = view
        /\ metrics' = Metrics(view)
        /\ page' \in Page(sel, view, c)

\* The category a run after a filter change sees: the selectbox keeps its
\* value while its entries are the same, and starts over at "All" otherwise.
KeptCat(rg, stt, ct, sd, ed) ==
    IF selected = "Category"
       /\ CatOptions(FilterData(LoadedTable, rg, stt, ct, sd, ed)) = CatOptions(df_filtered)
    THEN cat ELSE All

-----------------------------------------------------------------------------
(* The first run and the interactions *)

FirstRun(table) ==
    LET view == FilterData(table, All, All, All, min_date(table), max_date(table))
    IN  /\ cache = table
        /\ theme = "light"
        /\ selected = options[1]
        /\ region = All
        /\ state = All
        /\ city = All
        /\ start_date = min_date(table)
        /\ end_date = max_date(table)
        /\ cat = All
        /\ df = table
        /\ df_filtered = view
        /\ metrics = Metrics(view)
        /\ page \in Page(options[1], view, All)

Init == \E table \in Tables : FirstRun(table)

InitRank == \E table \in RankTables : FirstRun(table)

ToggleTheme ==
    \E th \in {toggle_theme(theme)} :
        Run(th, selected, region, state, city, start_date, end_date, cat)

SelectView ==
    \E i \in 1..Len(options) :
        /\ options[i] # selected
        /\ Run(theme, options[i], region, state, city, start_date, end_date, All)

SelectRegion ==
    \E i \in 1..Len(SelectOptions(df, "region")) :
        LET v == SelectOptions(df, "region")[i]
        IN  /\ v # region
            /\ Run(theme, selected, v, state, city, start_date, end_date,
                   KeptCat(v, state, city, start_date, end_date))

SelectState ==
    \E i \in 1..Len(SelectOptions(df, "state")) :
        LET v == SelectOptions(df, "state")[i]
        IN  /\ v # state
            /\ Run(theme, selected, region, v, city, start_date, end_date,
                   KeptCat(region, v, city, start_date, end_date))

PickCity ==
    \E i \in 1..Len(SelectOptions(df, "city")) :
        LET v == SelectOptions(df, "city")[i]
        IN  /\ v # city
            /\ Run(theme, selected, region, state, v, start_date, end_date,
                   KeptCat(region, state, v, start_date, end_date))

SetStartDate ==
    \E d \in DateOptions(df) :
        /\ d # start_date
        /\ Run(theme, selected, region, state, city, d, end_date,
               KeptCat(region, state, city, d, end_date))

SetEndDate ==
    \E d \in DateOptions(df) :
        /\ d # end_date
        /\ Run(theme, selected, region, state, city, start_date, d,
               KeptCat(region, state, city, start_date, d))

ChooseCategory ==
    /\ selected = "Category"
    /\ \E i \in 1..Len(CatOptions(df_filtered)) :
        LET c == CatOptions(df_filtered)[i]
        IN  /\ c # cat
            /\ Run(theme, selected, region, state, city, start_date, end_date, c)

Next ==
    \/ ToggleTheme
    \/ SelectView
    \/ SelectRegion
    \/ SelectState
    \/ PickCity
    \/ SetStartDate
    \/ SetEndDate
    \/ ChooseCategory

Spec == Init /\ [][Next]_vars

SpecRank == InitRank /\ [][Next]_vars

-----------------------------------------------------------------------------
(* What the specification says of a run, stated without the pandas operators *)

\* A row satisfies every active predicate of the current FilterSpec.
Satisfies(r) ==
    /\ region = All \/ r.region = region
    /\ state = All \/ r.state = state
    /\ city = All \/ r.city = city
    /\ start_date <= r.order_date
    /\ r.order_date <= end_date

\* The positions of the table whose rows satisfy the FilterSpec.
Kept == {i \in 1..Len(df) : Satisfies(df[i])}

\* The j-th smallest element of a set of positions.
Nth(I, j) == CHOOSE i \in I : Cardinality({k \in I : k < i}) = j - 1

\* The table restricted to the kept positions, in the table's order.
Restricted == [j \in 1..Cardinality(Kept) |-> df[Nth(Kept, j)]]

\* The sum of a column over a set of positions of a view.
RECURSIVE SumOver(_, _, _)
SumOver(view, col, I) ==
    IF I = {} THEN 0
    ELSE LET i == CHOOSE i \in I : TRUE
         IN  view[i][col] + SumOver(view, col, I \ {i})

Positions(view) == 1..Len(view)

KeysOf(view, key) == {view[i][key] : i \in Positions(view)}

\* The summed sales of the rows of a view that carry key value k.
GroupTotal(view, key, k) ==
    SumOver(view, "sales", {i \in Positions(view) : view[i][key] = k})

\* The key with the greatest total, the least such key on a tie.
FirstMax(view, key) ==
    CHOOSE k \in KeysOf(view, key) :
        /\ \A k2 \in KeysOf(view, key) : GroupTotal(view, key, k2) <= GroupTotal(view, key, k)
        /\ \A k2 \in KeysOf(view, key) :
              GroupTotal(view, key, k2) = GroupTotal(view, key, k) => k <= k2

\* The six cards a view should show.
Cards(view) ==
    [total_sales  |-> <<"$", SumOver(view, "sales", Positions(view))>>,
     qty_sold     |-> SumOver(view, "quantity", Positions(view)),
     total_profit |-> <<"$", SumOver(view, "profit", Positions(view))>>,
     top_category |-> IF view = <<>> THEN Dash ELSE FirstMax(view, "category"),
     top_city     |-> IF view = <<>> THEN Dash ELSE FirstMax(view, "city"),
     orders       |-> Cardinality(KeysOf(view, "order_id"))]

\* The cards of a view without rows.
EmptyCards ==
    [total_sales |-> <<"$", 0>>, qty_sold |-> 0, total_profit |-> <<"$", 0>>,
     top_category |-> Dash, top_city |-> Dash, orders |-> 0]

\* The rows of a view in every order.
Rearrangements(view) ==
    {[j \in Positions(view) |-> view[p[j]]] : p \in Permutations(Positions(view))}

NonIncreasing(s) == \A j \in 1..(Len(s) - 1) : s[j].sales >= s[j + 1].sales

\* A chart lists (key, total) pairs of the view's grouping, no key twice.
PairsOfGrouping(s, view, key) ==
    /\ \A j \in 1..Len(s) :
          /\ s[j].key \in KeysOf(view, key)
          /\ s[j].sales = GroupTotal(view, key, s[j].key)
    /\ \A j, k \in 1..Len(s) : s[j].key = s[k].key => j = k

\* A chart is a top-TopN ranking of the view's grouping by key.
IsRanking(s, view, key) ==
    /\ Len(s) = Min2(TopN, Cardinality(KeysOf(view, key)))
    /\ NonIncreasing(s)
    /\ PairsOfGrouping(s, view, key)
    /\ \A k \in KeysOf(view, key) \ {s[j].key : j \in 1..Len(s)} :
          \A j \in 1..Len(s) : GroupTotal(view, key, k) <= s[j].sales

\* The <<year, month>> of a row's order_date.
MonthOf(r) == <<CivilFromDays(r.order_date)[1], CivilFromDays(r.order_date)[2]>>

Earlier(a, b) == a[1] < b[1] \/ (a[1] = b[1] /\ a[2] < b[2])

-----------------------------------------------------------------------------
(* Claims *)

\* C1: the FilteredView is the Table restricted to the rows that satisfy
\* every active predicate (equality on region/state/city unless "All",
\* start_date <= order_date <= end_date), in the Table's row order.
C1_FilteredViewIsRestriction ==
    /\ Len(df_filtered) = Cardinality(Kept)
    /\ \A j \in 1..Len(df_filtered) : df_filtered[j] = df[Nth(Kept, j)]

\* A run that kept two rows around a dropped one, one of them dated end_date,
\* with the region predicate active.
C1_Witness ==
    /\ region # All
    /\ Len(df_filtered) = 2
    /\ Len(df) = 3
    /\ df_filtered[1] = df[1]
    /\ df_filtered[2] = df[3]
    /\ \E j \in 1..2 : df_filtered[j].order_date = end_date

\* C2: with region, state and city "All" and the range [min order_date,
\* max order_date], the FilteredView is the whole Table, rows and order.
C2_NoConstraintKeepsTable ==
    ( /\ region = All /\ state = All /\ city = All
      /\ \A i \in 1..Len(df) : start_date <= df[i].order_date /\ df[i].order_date <= end_date
      /\ \E i \in 1..Len(df) : df[i].order_date = start_date
      /\ \E i \in 1..Len(df) : df[i].order_date = end_date )
    => df_filtered = df

\* The full range chosen again after the filters had been narrowed, on a
\* table of several rows and dates.
C2_Witness ==
    /\ region = All /\ state = All /\ city = All
    /\ theme = "dark"
    /\ selected = "Sales"
    /\ Len(df) >= 2
    /\ start_date < end_date
    /\ \A i \in 1..Len(df) : start_date <= df[i].order_date /\ df[i].order_date <= end_date
    /\ \E i \in 1..Len(df) : df[i].order_date = start_date
    /\ \E i \in 1..Len(df) : df[i].order_date = end_date

\* C3: on an empty FilteredView nothing raises: the sums and the order
\* count are 0, top category and top city are "-", the trend is empty and the
\* average shipping duration is shown as "-".
C3_EmptyViewDegrades ==
    df_filtered = <<>> =>
        /\ metrics = EmptyCards
        /\ selected = "Trends" => page.trend = <<>>
        /\ selected = "Shipping" => page.avg_ship = <<Dash>>

\* An empty view under a well-formed date range, on the Shipping page.
C3_Witness ==
    /\ df_filtered = <<>>
    /\ start_date <= end_date
    /\ selected = "Shipping"

\* C4: each of the product, state and city rankings has min(TopN, distinct
\* keys) entries, in non-increasing order of the sum, each a (key, sum) pair
\* of the view's grouping, and no omitted key has a greater sum than a
\* listed one.
C4_RankingsAreTopN ==
    /\ selected = "Product" => IsRanking(page.top_products, df_filtered, "product_name")
    /\ selected = "Location" =>
          /\ IsRanking(page.state_sales, df_filtered, "state")
          /\ IsRanking(page.city_sales, df_filtered, "city")

\* A state ranking cut to TopN entries, with an omitted state whose total
\* equals the last listed one.
C4_Witness ==
    /\ selected = "Location"
    /\ Cardinality(KeysOf(df_filtered, "state")) > TopN
    /\ Len(page.state_sales) = TopN
    /\ \E k \in KeysOf(df_filtered, "state") :
          /\ \A j \in 1..TopN : page.state_sales[j].key # k
          /\ GroupTotal(df_filtered, "state", k) = page.state_sales[TopN].sales

\* C5: the per-category sums add up to the total sales metric, and every
\* row of the view falls in exactly one category group.
C5_CategorySumsPartitionTotal ==
    selected = "Sales" =>
        /\ SumOver(page.cat_sales, "sales", Positions(page.cat_sales))
              = SumOver(df_filtered, "sales", Positions(df_filtered))
        /\ metrics.total_sales
              = <<"$", SumOver(page.cat_sales, "sales", Positions(page.cat_sales))>>
        /\ \A i \in Positions(df_filtered) :
              Cardinality({j \in Positions(page.cat_sales) :
                              page.cat_sales[j].key = df_filtered[i].category}) = 1

\* A Sales page over two categories, one of them with two rows.
C5_Witness ==
    /\ selected = "Sales"
    /\ Len(page.cat_sales) = 2
    /\ Len(df_filtered) = 3

\* C6: the trend has one point per (year, month) of a row of the view, its
\* value the summed sales of that month's rows, in strictly increasing
\* chronological order, and no point for a month without a row.
C6_TrendIsMonthlySums ==
    selected = "Trends" =>
        /\ \A j \in 1..Len(page.trend) :
              /\ \E i \in Positions(df_filtered) : MonthOf(df_filtered[i]) = page.trend[j].order_date
              /\ page.trend[j].sales =
                    SumOver(df_filtered, "sales",
                            {i \in Positions(df_filtered) :
                                MonthOf(df_filtered[i]) = page.trend[j].order_date})
        /\ \A i \in Positions(df_filtered) :
              \E j \in 1..Len(page.trend) : page.trend[j].order_date = MonthOf(df_filtered[i])
        /\ \A j \in 1..(Len(page.trend) - 1) :
              Earlier(page.trend[j].order_date, page.trend[j + 1].order_date)

\* A trend over January of two different years with the months between
\* them absent, built from rows that are not in chronological order.
C6_Witness ==
    /\ selected = "Trends"
    /\ Len(page.trend) = 2
    /\ Len(df_filtered) >= 2
    /\ page.trend[1].order_date[2] = page.trend[2].order_date[2]
    /\ page.trend[1].order_date[1] < page.trend[2].order_date[1]
    /\ df_filtered[1].order_date > df_filtered[2].order_date

\* C7: on a non-empty view top category and top city are groups of greatest
\* summed sales, the first in ascending key order on a tie, whatever the
\* order of the view's rows.
C7_TopIsFirstMaximum ==
    df_filtered # <<>> =>
        /\ metrics.top_category = FirstMax(df_filtered, "category")
        /\ metrics.top_city = FirstMax(df_filtered, "city")
        /\ \A v \in Rearrangements(df_filtered) :
              /\ TopKey(v, "category") = metrics.top_category
              /\ TopKey(v, "city") = metrics.top_city

\* On a view narrowed by the date range, two categories tie for the maximum
\* and the view's first row belongs to the one that comes second in key order.
C7_Witness ==
    /\ df_filtered # <<>>
    /\ Len(df_filtered) < Len(df)
    /\ end_date < max_date(df)
    /\ \E k1, k2 \in KeysOf(df_filtered, "category") :
          /\ k1 < k2
          /\ GroupTotal(df_filtered, "category", k1) = GroupTotal(df_filtered, "category", k2)
          /\ metrics.top_category = k1
          /\ df_filtered[1].category = k2

\* C8: the sub-category chart is built from the rows of the FilteredView
\* whose category is the chosen one (all rows for "All"): each of their
\* sub-categories once with its summed sales, in non-increasing order; every
\* row counted satisfies the FilterSpec.
C8_SubcategoryAfterCategoryFilter ==
    selected = "Category" =>
        LET data == SelectSeq(df_filtered, LAMBDA r : cat = All \/ r.category = cat)
        IN  /\ Len(page.subcat_sales) = Cardinality(KeysOf(data, "sub_category"))
            /\ PairsOfGrouping(page.subcat_sales, data, "sub_category")
            /\ NonIncreasing(page.subcat_sales)
            /\ \A i \in Positions(data) : Satisfies(data[i])

\* A category chosen on a view that also holds rows of another category,
\* with a geographic predicate active.
C8_Witness ==
    /\ selected = "Category"
    /\ cat # All
    /\ region # All
    /\ \E i \in Positions(df_filtered) : df_filtered[i].category # cat
    /\ Len(page.subcat_sales) >= 1

\* C9: after any interactions the Table is the loaded table and the
\* FilteredView and the six cards are those of (Table, current FilterSpec).
C9_RunDependsOnTableAndSpecOnly ==
    /\ [](df = cache /\ df_filtered = Restricted /\ metrics = Cards(Restricted))
    /\ [][df' = df /\ cache' = cache]_vars

\* A narrowed FilterSpec reached after the theme, the view, the category
\* and an earlier, different filter were changed.
C9_Witness ==
    /\ theme = "dark"
    /\ selected = "Category"
    /\ cat # All
    /\ region # All
    /\ state = All
    /\ start_date > min_date(df)
    /\ Len(df_filtered) >= 1
    /\ Len(df_filtered) < Len(df)

\* C10: with start_date > end_date the view is empty and the cards take the
\* empty-view values, whatever region, state and city are.
C10_ReversedRangeIsEmpty ==
    start_date > end_date => df_filtered = <<>> /\ metrics = EmptyCards

\* A reversed range whose two days both carry rows that pass the
\* geographic predicates.
C10_Witness ==
    /\ start_date > end_date
    /\ city # All
    /\ \E i \in 1..Len(df) :
          /\ df[i].city = city /\ (region = All \/ df[i].region = region)
          /\ (state = All \/ df[i].state = state)
          /\ df[i].order_date = start_date
    /\ \E i \in 1..Len(df) : df[i].city = city /\ df[i].order_date = end_date

====
